---------------------------- MODULE Spec2Model ----------------------------
(***************************************************************************)
(* PaletteLab: the colour engine (hex <-> HSL conversion, the six scheme   *)
(* generators and their dispatcher), the usePaletteGenerator hook (cache,  *)
(* loading flag, asynchronous generation) and the Home page (input state,  *)
(* debounced Generate, Random, add/remove swatch, URL fragment).           *)
(*                                                                         *)
(* Strings are sequences of one-character strings, so that '#', letter     *)
(* case and length are what the code sees.  Numbers the code computes in   *)
(* floating point are exact rationals <<n, d>> (d > 0, lowest terms): the  *)
(* rounding error of doubles is not modelled, so a channel whose exact     *)
(* value ends in .5 may differ by one unit from the one the code prints.   *)
(* String identity, lengths, positions and hue offsets do not depend on it.*)
(***************************************************************************)
EXTENDS Integers, Sequences, FiniteSets, TLC

(***************************************************************************)
(* Exact rational arithmetic.                                              *)
(***************************************************************************)
Abs(x) == IF x < 0 THEN -x ELSE x

RECURSIVE GCD(_, _)
GCD(a, b) == IF b = 0 THEN a ELSE GCD(b, a % b)

\* NaN, as the code's arithmetic produces it from a string it cannot parse
NaN == <<0, 0>>

IsNaN(a) == a[2] = 0

\* n / d in lowest terms with a positive denominator, g being gcd(|n|, |d|)
Reduce(n, d, g) ==
  IF d < 0 THEN <<-(n \div g), -(d \div g)>> ELSE <<n \div g, d \div g>>

Rat(n, d) == Reduce(n, d, GCD(Abs(n), Abs(d)))

RInt(n) == <<n, 1>>

\* a + b, g being the gcd of the denominators
AddOver(a, b, g) ==
  Rat(a[1] * (b[2] \div g) + b[1] * (a[2] \div g), (a[2] \div g) * b[2])

RAdd(a, b) ==
  IF IsNaN(a) \/ IsNaN(b) THEN NaN ELSE AddOver(a, b, GCD(a[2], b[2]))

RNeg(a) == <<-a[1], a[2]>>

RSub(a, b) == RAdd(a, RNeg(b))

\* a * b, cancelled crosswise by g1 = gcd(|a1|, b2) and g2 = gcd(|b1|, a2)
MulOver(a, b, g1, g2) ==
  <<(a[1] \div g1) * (b[1] \div g2), (a[2] \div g2) * (b[2] \div g1)>>

RMul(a, b) ==
  IF IsNaN(a) \/ IsNaN(b) THEN NaN
  ELSE IF a[1] = 0 \/ b[1] = 0 THEN <<0, 1>>
  ELSE MulOver(a, b, GCD(Abs(a[1]), b[2]), GCD(Abs(b[1]), a[2]))

\* a / b for b # 0
RDiv(a, b) ==
  IF IsNaN(b) THEN NaN
  ELSE RMul(a, IF b[1] < 0 THEN <<-b[2], -b[1]>> ELSE <<b[2], b[1]>>)

\* a < b on fractions, g being the gcd of the denominators
LessOver(a, b, g) == a[1] * (b[2] \div g) < b[1] * (a[2] \div g)

\* a < b; false when either is NaN, as every comparison with NaN is
RLess(a, b) == ~IsNaN(a) /\ ~IsNaN(b) /\ LessOver(a, b, GCD(a[2], b[2]))

\* a === b on numbers: NaN equals nothing
REq(a, b) == ~IsNaN(a) /\ ~IsNaN(b) /\ a = b

\* Math.min and Math.max: NaN when an argument is NaN
RMin(a, b) == IF IsNaN(a) \/ IsNaN(b) THEN NaN ELSE IF RLess(b, a) THEN b ELSE a

RMax(a, b) == IF IsNaN(a) \/ IsNaN(b) THEN NaN ELSE IF RLess(a, b) THEN b ELSE a

\* Math.round of a rational that is not NaN (halves round up)
RRound(a) == (a[1] + (a[2] \div 2)) \div a[2]

\* A hue left as it is, without % 360
Mod360Left(x) == x

\* x % 360 for x >= 0
RECURSIVE Mod360(_)
Mod360(x) ==
  IF IsNaN(x) \/ RLess(x, RInt(360)) THEN x ELSE Mod360(RSub(x, RInt(360)))

(***************************************************************************)
(* Characters and hexadecimal digits.                                      *)
(***************************************************************************)
HexLower == <<"0", "1", "2", "3", "4", "5", "6", "7", "8", "9",
              "a", "b", "c", "d", "e", "f">>

HexUpper == <<"0", "1", "2", "3", "4", "5", "6", "7", "8", "9",
              "A", "B", "C", "D", "E", "F">>

IsHexDigit(c) == \E i \in 1..16 : HexLower[i] = c \/ HexUpper[i] = c

HexVal(c) == CHOOSE v \in 0..15 : HexLower[v + 1] = c \/ HexUpper[v + 1] = c

\* hex.substring(a, b): characters a .. b-1 (0-based), clipped to the string
Substring(str, a, b) ==
  LET hi == IF b > Len(str) THEN Len(str) ELSE b
  IN  IF a >= hi THEN <<>> ELSE SubSeq(str, a + 1, hi)

\* hexColor.replace('#', ''): the first '#' removed, wherever it stands
ReplaceHash(str) ==
  IF \E i \in 1..Len(str) : str[i] = "#"
  THEN LET k == CHOOSE i \in 1..Len(str) :
                  str[i] = "#" /\ \A j \in 1..(i - 1) : str[j] # "#"
       IN  SubSeq(str, 1, k - 1) \o SubSeq(str, k + 1, Len(str))
  ELSE str

\* parseInt(str, 16): the value of the longest prefix of hexadecimal digits,
\* NaN when there is none; leading blanks are skipped (signs and a 0x prefix
\* are not in the alphabet of the strings modelled)
RECURSIVE HexPrefix(_, _)
HexPrefix(str, acc) ==
  IF Len(str) = 0 \/ ~IsHexDigit(str[1]) THEN acc
  ELSE HexPrefix(Tail(str), 16 * acc + HexVal(str[1]))

\* A parser that wants every character to be a hex digit
parseInt16Strict(str) ==
  IF Len(str) = 0 \/ \E i \in 1..Len(str) : ~IsHexDigit(str[i]) THEN NaN
  ELSE RInt(HexPrefix(str, 0))

RECURSIVE SkipBlanks(_)
SkipBlanks(str) ==
  IF Len(str) > 0 /\ str[1] = " " THEN SkipBlanks(Tail(str)) ELSE str

ParseDigits(str) ==
  IF Len(str) = 0 \/ ~IsHexDigit(str[1]) THEN NaN ELSE RInt(HexPrefix(str, 0))

parseInt16(str) == ParseDigits(SkipBlanks(str))

(***************************************************************************)
(* Colour math.                                                            *)
(***************************************************************************)
\* The pattern without its closing anchor: /^#?([0-9A-F]{3}|[0-9A-F]{6})/i
isValidHexColorUnanchored(color) ==
  LET body == IF Len(color) > 0 /\ color[1] = "#" THEN Tail(color) ELSE color
  IN  /\ Len(body) >= 3
      /\ \A i \in 1..3 : IsHexDigit(body[i])

\* /^#?([0-9A-F]{3}|[0-9A-F]{6})$/i
isValidHexColor(color) ==
  LET body == IF Len(color) > 0 /\ color[1] = "#" THEN Tail(color) ELSE color
  IN  /\ Len(body) \in {3, 6}
      /\ \A i \in 1..Len(body) : IsHexDigit(body[i])

\* A standardizer that repeats the three digits instead of doubling each
standardizeHexColorRepeated(color) ==
  LET hex == IF Len(color) > 0 /\ color[1] = "#" THEN color ELSE <<"#">> \o color
  IN  IF Len(hex) = 4
      THEN <<"#", hex[2], hex[3], hex[4], hex[2], hex[3], hex[4]>>
      ELSE hex

standardizeHexColor(color) ==
  LET hex == IF Len(color) > 0 /\ color[1] = "#" THEN color ELSE <<"#">> \o color
  IN  IF Len(hex) = 4
      THEN <<"#", hex[2], hex[2], hex[3], hex[3], hex[4], hex[4]>>
      ELSE hex

\* The red, green and blue channels parsed from a colour string
ChannelsOf(hex) ==
  <<parseInt16(Substring(hex, 0, 2)),
    parseInt16(Substring(hex, 2, 4)),
    parseInt16(Substring(hex, 4, 6))>>

Channels(hexColor) == ChannelsOf(ReplaceHash(hexColor))

\* hexToHSL from r, g, b in [0, 1], max, min, d = max - min and
\* l = (max + min) / 2
HslOf(r, g, b, max, min, d, l) ==
  LET s   == IF REq(max, min) THEN RInt(0)
             ELSE IF RLess(<<1, 2>>, l) THEN RDiv(d, RSub(RSub(RInt(2), max), min))
             ELSE RDiv(d, RAdd(max, min))
      h6  == IF REq(max, min) THEN RInt(0)
             ELSE IF REq(max, r)
                  THEN RAdd(RDiv(RSub(g, b), d),
                            IF RLess(g, b) THEN RInt(6) ELSE RInt(0))
             ELSE IF REq(max, g) THEN RAdd(RDiv(RSub(b, r), d), RInt(2))
             ELSE IF REq(max, b) THEN RAdd(RDiv(RSub(r, g), d), RInt(4))
             ELSE RInt(0)
  IN  [h |-> RMul(h6, RInt(60)), s |-> s, l |-> l]

HslOfExtremes(r, g, b, max, min) ==
  HslOf(r, g, b, max, min, RSub(max, min), RDiv(RAdd(max, min), RInt(2)))

HslOfRgb(r, g, b) ==
  HslOfExtremes(r, g, b, RMax(RMax(r, g), b), RMin(RMin(r, g), b))

HslOfChannels(ch) ==
  HslOfRgb(RDiv(ch[1], RInt(255)), RDiv(ch[2], RInt(255)),
           RDiv(ch[3], RInt(255)))

hexToHSL(hexColor) == HslOfChannels(Channels(hexColor))

\* if (t < 0) t += 1; if (t > 1) t -= 1
WrapUnit(t) ==
  IF RLess(t, RInt(0)) THEN RAdd(t, RInt(1))
  ELSE IF RLess(RInt(1), t) THEN RSub(t, RInt(1))
  ELSE t

Hue2rgbAt(p, q, t) ==
  IF RLess(t, <<1, 6>>) THEN RAdd(p, RMul(RMul(RSub(q, p), RInt(6)), t))
  ELSE IF RLess(t, <<1, 2>>) THEN q
  ELSE IF RLess(t, <<2, 3>>)
       THEN RAdd(p, RMul(RMul(RSub(q, p), RSub(<<2, 3>>, t)), RInt(6)))
  ELSE p

\* hue2rgb without its two wrapping lines
hue2rgbUnwrapped(p, q, t0) == Hue2rgbAt(p, q, t0)

hue2rgb(p, q, t0) == Hue2rgbAt(p, q, WrapUnit(t0))

\* v.toString(16): lowercase digits, a minus sign before a negative value
RECURSIVE HexDigitsOf(_)
HexDigitsOf(v) ==
  IF v < 16 THEN <<HexLower[v + 1]>>
  ELSE HexDigitsOf(v \div 16) \o <<HexLower[(v % 16) + 1]>>

ToString16(v) == IF v < 0 THEN <<"-">> \o HexDigitsOf(-v) ELSE HexDigitsOf(v)

\* hex.length === 1 ? '0' + hex : hex
PadHex(hex) == IF Len(hex) = 1 THEN <<"0">> \o hex ELSE hex

HexByte(v) == PadHex(ToString16(v))

\* Math.round(x * 255).toString(16), padded; 'NaN' for NaN
toHex(x) ==
  IF IsNaN(x) THEN <<"N", "a", "N">> ELSE HexByte(RRound(RMul(x, RInt(255))))

\* `#${toHex(r)}${toHex(g)}${toHex(b)}`
RgbToHex(r, g, b) == <<"#">> \o toHex(r) \o toHex(g) \o toHex(b)

\* q of hslToHex
HslQ(s, l) ==
  IF RLess(l, <<1, 2>>) THEN RMul(l, RAdd(RInt(1), s))
  ELSE RSub(RAdd(l, s), RMul(l, s))

\* The chromatic branch of hslToHex, hh being h / 360
HslToHexPQ(p, q, hh) ==
  RgbToHex(hue2rgb(p, q, RAdd(hh, <<1, 3>>)), hue2rgb(p, q, hh),
           hue2rgb(p, q, RSub(hh, <<1, 3>>)))

HslToHexQ(q, hh, l) == HslToHexPQ(RSub(RMul(RInt(2), l), q), q, hh)

hslToHex(h, s, l) ==
  IF REq(s, RInt(0)) THEN RgbToHex(l, l, l)
  ELSE HslToHexQ(HslQ(s, l), RDiv(h, RInt(360)), l)

\* yiq > 128 in place of yiq >= 128
ContrastOfYiqStrict(yiq) ==
  IF RLess(RInt(128), yiq)
  THEN <<"#", "0", "0", "0", "0", "0", "0">>
  ELSE <<"#", "f", "f", "f", "f", "f", "f">>

ContrastOfYiq(yiq) ==
  IF ~RLess(yiq, RInt(128)) /\ ~IsNaN(yiq)
  THEN <<"#", "0", "0", "0", "0", "0", "0">>
  ELSE <<"#", "f", "f", "f", "f", "f", "f">>

YiqOf(ch) ==
  RDiv(RAdd(RAdd(RMul(ch[1], RInt(299)), RMul(ch[2], RInt(587))),
            RMul(ch[3], RInt(114))), RInt(1000))

getContrastColor(hexColor) == ContrastOfYiq(YiqOf(Channels(hexColor)))

(***************************************************************************)
(* Home's formatColor: the text copied for a swatch in the chosen format.  *)
(***************************************************************************)
DecDigits == <<"0", "1", "2", "3", "4", "5", "6", "7", "8", "9">>

\* String(n) for an integer n
RECURSIVE DecimalDigitsOf(_)
DecimalDigitsOf(n) ==
  IF n < 10 THEN <<DecDigits[n + 1]>>
  ELSE DecimalDigitsOf(n \div 10) \o <<DecDigits[(n % 10) + 1]>>

DecimalOf(n) ==
  IF n < 0 THEN <<"-">> \o DecimalDigitsOf(-n) ELSE DecimalDigitsOf(n)

\* `${Math.round(x)}`
RoundedText(x) == IF IsNaN(x) THEN <<"N", "a", "N">> ELSE DecimalOf(RRound(x))

\* c.toFixed(2) from the hundredths n of c >= 0
FixedOfHundredths(n) ==
  DecimalOf(n \div 100) \o <<".", DecDigits[((n % 100) \div 10) + 1],
                              DecDigits[(n % 10) + 1]>>

\* chroma.toFixed(2) for chroma >= 0; a value exactly between two
\* hundredths goes up
ToFixed2(x) ==
  IF IsNaN(x) THEN <<"N", "a", "N">>
  ELSE FixedOfHundredths(RRound(RMul(x, RInt(100))))

HslText(hsl) ==
  <<"h", "s", "l", "(">> \o RoundedText(hsl.h) \o <<"d", "e", "g", " ">>
    \o RoundedText(RMul(hsl.s, RInt(100))) \o <<"%", " ">>
    \o RoundedText(RMul(hsl.l, RInt(100))) \o <<"%", ")">>

OklchText(hsl) ==
  <<"o", "k", "l", "c", "h", "(">>
    \o RoundedText(RMul(hsl.l, RInt(100))) \o <<"%", " ">>
    \o ToFixed2(RMul(hsl.s, <<2, 5>>)) \o <<" ">>
    \o RoundedText(hsl.h) \o <<"d", "e", "g", ")">>

formatColor(hexColor, format) ==
  CASE format = "hsl" -> HslText(hexToHSL(hexColor))
    [] format = "oklch" -> OklchText(hexToHSL(hexColor))
    [] OTHER -> hexColor

(***************************************************************************)
(* Palette derivation.  A generator returns its swatches in output order;  *)
(* each swatch carries the string the code pushes (hex) and how it was     *)
(* made: lit = the standardized base string pushed as it is, otherwise     *)
(* hslToHex(h, s, l) with h = (base hue + off) % 360.                      *)
(***************************************************************************)
PaletteTypes == {"monochromatic", "analogous", "complementary", "triadic",
                 "tetradic", "split-complementary"}

Literal(standardHex, hsl) ==
  [hex |-> standardHex, lit |-> TRUE, off |-> RInt(0),
   h |-> hsl.h, s |-> hsl.s, l |-> hsl.l]

\* The swatch hslToHex(h, s, l), made with hue offset off
SwatchAt(h, off, s, l) ==
  [hex |-> hslToHex(h, s, l), lit |-> FALSE, off |-> off,
   h |-> h, s |-> s, l |-> l]

\* hslToHex((baseH + off) % 360, s, l); the code adds 360 first when off < 0
Swatch(baseH, off, s, l) ==
  SwatchAt(IF RLess(off, RInt(0))
           THEN Mod360(RAdd(RAdd(baseH, off), RInt(360)))
           ELSE IF off = RInt(0) THEN baseH
           ELSE Mod360(RAdd(baseH, off)),
           off, s, l)

MaxInt(a, b) == IF a >= b THEN a ELSE b

\* Math.floor in place of Math.ceil
CeilDivFloored(a, b) == a \div b

\* Math.ceil(a / b)
CeilDiv(a, b) == -((-a) \div b)

\* The loops of generateMonochromaticPalette, given the standardized
\* colour, its h, s, l and the count
MonochromaticFrom(standardHex, hsl, count) ==
  LET middleIndex == (count - 1) \div 2
      stepSize    == IF count <= 5 THEN <<1, 5>> ELSE Rat(4, 5 * (count \div 2))
  IN  [k \in 1..count |->
        LET i == k - 1
        IN  IF i < middleIndex
            THEN Swatch(hsl.h, RInt(0), hsl.s,
                   RMin(RAdd(hsl.l, RMul(RInt(middleIndex - i), stepSize)),
                        <<97, 100>>))
            ELSE IF i = middleIndex THEN Literal(standardHex, hsl)
            ELSE Swatch(hsl.h, RInt(0), hsl.s,
                   RMax(RSub(hsl.l, RMul(RInt(i - middleIndex), stepSize)),
                        <<5, 100>>))]

MonochromaticSwatches(baseColor, swatchCount) ==
  MonochromaticFrom(standardizeHexColor(baseColor),
      hexToHSL(standardizeHexColor(baseColor)), MaxInt(3, swatchCount))

\* The loops of generateAnalogousPalette
AnalogousFrom(standardHex, hsl, count) ==
  LET angleStep     == IF count <= 5 THEN RInt(20) ELSE Rat(80, count \div 2)
      colorsPerSide == count \div 2
      hasMiddle     == count % 2 # 0
      lower == [k \in 1..colorsPerSide |->
                 Swatch(hsl.h, RNeg(RMul(RInt(colorsPerSide + 1 - k), angleStep)),
                        hsl.s, hsl.l)]
      upper == [i \in 1..colorsPerSide |->
                 Swatch(hsl.h, RMul(RInt(i), angleStep), hsl.s, hsl.l)]
  IN  lower \o (IF hasMiddle THEN <<Literal(standardHex, hsl)>> ELSE <<>>) \o upper

AnalogousSwatches(baseColor, swatchCount) ==
  AnalogousFrom(standardizeHexColor(baseColor),
      hexToHSL(standardizeHexColor(baseColor)), MaxInt(3, swatchCount))

\* The loops of generateComplementaryPalette
ComplementaryFrom(standardHex, hsl, count) ==
  LET mainColorCount       == CeilDiv(count, 2)
      complementColorCount == count \div 2
      mainStepSize == Rat(3, 10 * (mainColorCount - 1))
      compStepSize == Rat(3, 10 * MaxInt(1, complementColorCount - 1))
      main == [k \in 1..mainColorCount |->
                LET i == k - 1
                IN  IF i = 0
                    THEN Swatch(hsl.h, RInt(0),
                           RMax(<<1, 10>>, RSub(hsl.s, <<1, 5>>)),
                           RMin(<<9, 10>>, RAdd(hsl.l, <<1, 10>>)))
                    ELSE IF i = 1 THEN Literal(standardHex, hsl)
                    ELSE Swatch(hsl.h, RInt(0),
                           RMin(RInt(1), RAdd(hsl.s, RMul(RInt(i - 1), mainStepSize))),
                           RMax(<<1, 10>>, RSub(hsl.l, RMul(RInt(i - 1), mainStepSize))))]
      comp == [k \in 1..complementColorCount |->
                LET i == k - 1
                IN  IF i = 0
                    THEN Swatch(hsl.h, RInt(180),
                           RMax(<<1, 10>>, RSub(hsl.s, <<1, 5>>)),
                           RMin(<<9, 10>>, RAdd(hsl.l, <<1, 10>>)))
                    ELSE Swatch(hsl.h, RInt(180),
                           RMin(RInt(1), RAdd(hsl.s, RMul(RInt(i - 1), compStepSize))),
                           RMax(<<1, 10>>, RSub(hsl.l, RMul(RInt(i - 1), compStepSize))))]
  IN  main \o comp

ComplementarySwatches(baseColor, swatchCount) ==
  ComplementaryFrom(standardizeHexColor(baseColor),
      hexToHSL(standardizeHexColor(baseColor)), MaxInt(4, swatchCount))

\* One arm of the triadic palette, its first swatch being `first`
TriadArm(first, baseH, off, s, l, n) ==
  [k \in 1..n |->
    LET i    == k - 1
        step == Rat(i, n)
    IN  IF i = 0 THEN first
        ELSE Swatch(baseH, off,
               RMin(RInt(1), RAdd(s, RMul(<<1, 20>>, step))),
               RMax(<<1, 10>>, RSub(l, RMul(<<1, 10>>, step))))]

\* The loops of generateTriadicPalette
TriadicFrom(standardHex, hsl, count) ==
  LET colorsForBase   == CeilDiv(count, 3)
      colorsForTriad1 == (count - colorsForBase) \div 2
      colorsForTriad2 == count - colorsForBase - colorsForTriad1
  IN  TriadArm(Literal(standardHex, hsl), hsl.h, RInt(0), hsl.s, hsl.l,
               colorsForBase)
      \o TriadArm(Swatch(hsl.h, RInt(120), hsl.s, hsl.l), hsl.h, RInt(120),
                  hsl.s, hsl.l, colorsForTriad1)
      \o TriadArm(Swatch(hsl.h, RInt(240), hsl.s, hsl.l), hsl.h, RInt(240),
                  hsl.s, hsl.l, colorsForTriad2)

TriadicSwatches(baseColor, swatchCount) ==
  TriadicFrom(standardizeHexColor(baseColor),
      hexToHSL(standardizeHexColor(baseColor)), MaxInt(3, swatchCount))

\* A tetradic generator that gives every swatch beyond the fourth to the
\* base arm
TetradicFromBaseHeavy(standardHex, hsl, count) ==
  [k \in 1..(count - 3) |->
    IF k = 1 THEN Literal(standardHex, hsl)
    ELSE Swatch(hsl.h, RInt(0), hsl.s, hsl.l)]
  \o <<Swatch(hsl.h, RInt(90), hsl.s, hsl.l),
       Swatch(hsl.h, RInt(180), hsl.s, hsl.l),
       Swatch(hsl.h, RInt(270), hsl.s, hsl.l)>>

\* The loops of generateTetradicPalette
TetradicFrom(standardHex, hsl, count) ==
  LET baseCount    == CeilDiv(count, 4)
      tetrad1Count == CeilDiv(count - baseCount, 3)
      tetrad2Count == CeilDiv(count - baseCount - tetrad1Count, 2)
      tetrad3Count == count - baseCount - tetrad1Count - tetrad2Count
      base == [k \in 1..baseCount |->
                LET i == k - 1
                IN  IF i = 0 THEN Literal(standardHex, hsl)
                    ELSE Swatch(hsl.h, RInt(0),
                           RMax(<<1, 10>>, RSub(hsl.s, Rat(3 * i, 10 * baseCount))),
                           RMin(<<95, 100>>, RAdd(hsl.l, Rat(2 * i, 10 * baseCount))))]
  IN  base
      \o [k \in 1..tetrad1Count |-> Swatch(hsl.h, RInt(90), hsl.s, hsl.l)]
      \o [k \in 1..tetrad2Count |-> Swatch(hsl.h, RInt(180), hsl.s, hsl.l)]
      \o [k \in 1..tetrad3Count |-> Swatch(hsl.h, RInt(270), hsl.s, hsl.l)]

TetradicSwatches(baseColor, swatchCount) ==
  TetradicFrom(standardizeHexColor(baseColor),
      hexToHSL(standardizeHexColor(baseColor)), MaxInt(4, swatchCount))

\* The loops of generateSplitComplementaryPalette
SplitComplementaryFrom(standardHex, hsl, count) ==
  LET baseColorCount == CeilDiv(count, 3)
      split1Count    == (count - baseColorCount) \div 2
      split2Count    == count - baseColorCount - split1Count
      base == [k \in 1..baseColorCount |->
                LET i == k - 1
                IN  IF i = 0
                    THEN Swatch(hsl.h, RInt(0),
                           RMax(<<1, 10>>, RSub(hsl.s, <<1, 10>>)),
                           RMin(<<95, 100>>, RAdd(hsl.l, <<1, 10>>)))
                    ELSE IF i = 1 THEN Literal(standardHex, hsl)
                    ELSE Swatch(hsl.h, RInt(0),
                           RMin(RInt(1), RAdd(hsl.s, <<1, 10>>)),
                           RMax(<<1, 10>>, RSub(hsl.l, <<1, 10>>)))]
  IN  base
      \o [k \in 1..split1Count |-> Swatch(hsl.h, RInt(150), hsl.s, hsl.l)]
      \o [k \in 1..split2Count |-> Swatch(hsl.h, RInt(210), hsl.s, hsl.l)]

SplitComplementarySwatches(baseColor, swatchCount) ==
  SplitComplementaryFrom(standardizeHexColor(baseColor),
      hexToHSL(standardizeHexColor(baseColor)), MaxInt(3, swatchCount))

\* A dispatcher that caps the count at 10 before it calls the generator,
\* which the engine does not do
PaletteSwatchesCapped(baseColor, type, swatchCount) ==
  LET capped == IF swatchCount > 10 THEN 10 ELSE swatchCount
  IN  CASE type = "analogous" -> AnalogousSwatches(baseColor, capped)
        [] type = "complementary" -> ComplementarySwatches(baseColor, capped)
        [] type = "triadic" -> TriadicSwatches(baseColor, capped)
        [] type = "tetradic" -> TetradicSwatches(baseColor, capped)
        [] type = "split-complementary" ->
             SplitComplementarySwatches(baseColor, capped)
        [] OTHER -> MonochromaticSwatches(baseColor, capped)

\* The dispatcher, on the swatches
PaletteSwatches(baseColor, type, swatchCount) ==
  CASE type = "analogous" -> AnalogousSwatches(baseColor, swatchCount)
    [] type = "complementary" -> ComplementarySwatches(baseColor, swatchCount)
    [] type = "triadic" -> TriadicSwatches(baseColor, swatchCount)
    [] type = "tetradic" -> TetradicSwatches(baseColor, swatchCount)
    [] type = "split-complementary" ->
         SplitComplementarySwatches(baseColor, swatchCount)
    [] OTHER -> MonochromaticSwatches(baseColor, swatchCount)

\* The strings of a sequence of swatches
HexOf(swatches) == [i \in 1..Len(swatches) |-> swatches[i].hex]

\* generatePalette(baseColor, type, swatchCount): the strings returned
generatePalette(baseColor, type, swatchCount) ==
  HexOf(PaletteSwatches(baseColor, type, swatchCount))

(***************************************************************************)
(* Bounds of the model and constants of the program.                       *)
(***************************************************************************)
\* Largest swatchCount passed to the engine by the engine specification
MaxCount == 12

\* Number of user actions (typing, picking, clicking) in a run of the page
MaxSteps == 3

\* Number of calls of generatePalette in a session of repeated calls
MaxCalls == 3

\* Longest string over TextChars given to the colour functions
MaxLen == 4

\* Time advances in ticks of 100 ms: debounce(..., 300) and setTimeout(..., 100)
DebounceTicks == 3

UrlDelayTicks == 1

\* colorState.swatchCount at construction and the limits the handlers test
InitialSwatchCount == 5

MinSwatches == 3

MaxSwatches == 10

\* generatePalette's default swatchCount
DefaultSwatchCount == 5

(***************************************************************************)
(* Strings the environment supplies.                                       *)
(***************************************************************************)
\* Base colours given to the engine: with and without '#', 3 and 6 digits,
\* both letter cases, greys, black and white
EngineColors ==
  { <<"a", "b", "c">>,
    <<"#", "A", "A", "B", "B", "C", "C">>,
    <<"#", "f", "f", "0", "0", "0", "0">>,
    <<"#", "8", "0", "8", "0", "8", "0">>,
    <<"#", "0", "0", "0", "0", "0", "0">>,
    <<"#", "f", "f", "f", "f", "f", "f">>,
    <<"F", "0", "a">>,
    <<"#", "3", "3", "6", "6", "9", "9">>,
    <<"#", "0", "0", "f", "f", "8", "8">>,
    <<"#", "9", "6", "3">> }

\* What the user types into the hex input or the picker's input
TypedInputs ==
  { <<"a", "b", "c">>,
    <<"#", "1", "2">> }

\* The schemes the user picks in the type menu
MenuTypes == {"analogous", "complementary"}

\* hsvaToHex(...) of the colour wheel: '#' and six lowercase digits
WheelColors == { <<"#", "f", "f", "0", "0", "0", "0">> }

\* "#" + six digits of Math.floor(Math.random() * 16).toString(16)
RandomColors == { <<"#", "3", "3", "6", "6", "9", "9">> }

TypeChars ==
  [t \in PaletteTypes |->
    CASE t = "monochromatic" ->
           <<"m", "o", "n", "o", "c", "h", "r", "o", "m", "a", "t", "i", "c">>
      [] t = "analogous" -> <<"a", "n", "a", "l", "o", "g", "o", "u", "s">>
      [] t = "complementary" ->
           <<"c", "o", "m", "p", "l", "e", "m", "e", "n", "t", "a", "r", "y">>
      [] t = "triadic" -> <<"t", "r", "i", "a", "d", "i", "c">>
      [] t = "tetradic" -> <<"t", "e", "t", "r", "a", "d", "i", "c">>
      [] t = "split-complementary" ->
           <<"s", "p", "l", "i", "t", "-", "c", "o", "m", "p", "l", "e", "m",
             "e", "n", "t", "a", "r", "y">>]

\* window.location.hash when the page is opened
InitialHashes ==
  { <<>>,
    <<"#", "z", "z", "/">> \o TypeChars["triadic"],
    <<"#", "a", "b", "c">>,
    <<"#", "A", "A", "B", "B", "C", "C", "/", "b", "o", "g", "u", "s">>,
    <<"#", "9", "6", "3", "/">> \o TypeChars["tetradic"] }

\* Strings given to the colour functions: every string of up to MaxLen
\* characters over TextChars, and longer samples (six-digit colours on both
\* sides of the contrast threshold, other lengths, a second '#', blanks,
\* characters that are not hex digits)
TextChars == {"#", "a", "F", "0", "g"}

SampleTexts ==
  { <<"#", "0", "1", "b", "d", "9", "3">>,
    <<"#", "0", "0", "a", "c", "e", "d">>,
    <<"#", "3", "b", "8", "2", "f", "6">>,
    <<"#", "1", "2", "3", "4", "5", "6">>,
    <<"#", "f", "e", "d", "c", "b", "a">>,
    <<"#", "A", "A", "B", "B", "C", "C">>,
    <<"a", "a", "b", "b", "c", "c">>,
    <<"#", "f", "f", "f", "f", "f", "f">>,
    <<"#", "0", "0", "0", "0", "0", "0">>,
    <<"#", "8", "0", "8", "0", "8", "0">>,
    <<"#", "f", "f", "0", "0", "f", "f">>,
    <<"C", "0", "F", "F", "E", "E">>,
    <<"#", "d", "e", "0", "6", "c", "e">>,
    <<"#", "#", "a", "b", "c">>,
    <<" ", "a", "b", "c">>,
    <<"a", "b", "c", " ">>,
    <<"#", "a", "b", "c", " ">>,
    <<"#", "a", "a", "b", "b", "c", "c", "d">>,
    <<"#", "1", "2", "3", "4", "5", "g">>,
    <<"#", "a", "a", "b", "b", "c", "c", "#">>,
    <<"f", "f", "f", "f", "0">>,
    <<"#", "f", "f", "0", "0", "0", "0", "0">>,
    <<"a", "b", "c", "d", "e", "g">>,
    <<"#", "a", "a", "b", " ", "b", "c", "c">> }

\* Strings isValidHexColor rejects: too short, too long, not hex, a second
\* '#', a blank; some of them still hold three parsable channel slices
RejectedTexts ==
  { <<>>,
    <<"#">>,
    <<"#", "1", "2">>,
    <<"z", "z", "z">>,
    <<"a", "b", "c", "d">>,
    <<"#", "#", "a", "b", "c">>,
    <<" ", "a", "b", "c">>,
    <<"g", "0", "0">>,
    <<"f", "f", "f", "f", "0">>,
    <<"#", "f", "f", "0", "0", "0", "0", "0">>,
    <<"#", "a", "a", "b", "b", "c", "c", "#">>,
    <<"f", "f", "f", "f", "0", "g">>,
    <<" ", "f", " ", "f", " ", "f">> }

ColorTexts == UNION {[1..k -> TextChars] : k \in 0..MaxLen} \cup SampleTexts

\* Six-digit colours given to formatColor: hues just below 360 degrees,
\* greys, black, white and colours of every hue sector
FormatColors ==
  { <<"#", "f", "f", "0", "0", "0", "1">>,
    <<"#", "f", "f", "0", "0", "0", "2">>,
    <<"#", "f", "f", "0", "0", "0", "3">>,
    <<"#", "f", "f", "0", "0", "0", "0">>,
    <<"#", "0", "0", "0", "0", "0", "0">>,
    <<"#", "f", "f", "f", "f", "f", "f">>,
    <<"#", "8", "0", "8", "0", "8", "0">>,
    <<"#", "3", "b", "8", "2", "f", "6">>,
    <<"#", "1", "2", "3", "4", "5", "6">>,
    <<"#", "f", "e", "d", "c", "b", "a">>,
    <<"#", "a", "a", "b", "b", "c", "c">>,
    <<"#", "0", "0", "f", "f", "8", "8">>,
    <<"#", "3", "3", "6", "6", "9", "9">>,
    <<"#", "f", "f", "0", "0", "f", "f">>,
    <<"#", "d", "e", "0", "6", "c", "e">>,
    <<"#", "0", "1", "0", "2", "0", "3">>,
    <<"#", "c", "0", "f", "f", "e", "e">>,
    <<"#", "f", "f", "8", "0", "0", "0">>,
    <<"#", "0", "0", "0", "0", "f", "f">>,
    <<"#", "0", "0", "f", "f", "0", "0">>,
    <<"#", "f", "f", "f", "f", "0", "0">>,
    <<"#", "0", "1", "b", "d", "9", "3">>,
    <<"#", "9", "9", "6", "6", "3", "3">>,
    <<"#", "f", "0", "f", "8", "f", "f">> }

ColorFormats == {"hex", "hsl", "oklch"}

(***************************************************************************)
(* State.                                                                  *)
(***************************************************************************)
VARIABLES
  \* Home: colorState, copiedStates, window.location.hash
  inputColor, isValidInput, paletteType, swatchCount, copiedStates, hash,
  \* Home: whether the mount effect has run, the effect's 100 ms timer, the
  \* current debounced function and the pending timers of replaced ones
  mounted, urlTimer, debounced, staleTimers,
  \* the message of the last toast.error
  toast,
  \* usePaletteGenerator: palette, loading, the cache, and the calls waiting
  \* in generatePaletteAsync's setTimeout(0), oldest first
  palette, loading, cachedResults, inFlight,
  \* history: window.location.hash at opening, the last call of
  \* generatePaletteWithType, the last call answered, the last debounced
  \* request that fired, and the number of user actions and faults so far
  initialHash, lastCall, answered, lastFired, steps,
  \* the text last written by navigator.clipboard.writeText, from '#' on
  clipboard,
  \* engine specification: the arguments of generatePalette and its result
  call, returned,
  \* the calls of generatePalette made so far, with what each returned
  history

homeVars == <<inputColor, isValidInput, paletteType, swatchCount, mounted,
              urlTimer, debounced, staleTimers, toast, initialHash, lastFired,
              steps>>

hookVars == <<palette, loading, cachedResults, inFlight, copiedStates, hash,
              lastCall, answered>>

engineVars == <<call, returned, history>>

shareVars == <<clipboard>>

vars == <<homeVars, hookVars, engineVars, shareVars>>

None == [none |-> TRUE]

EmptyPalette == [colors |-> <<>>, textColors |-> <<>>]

\* A debounced function with no call pending, created while swatchCount = n
IdleDebounce(n) ==
  [pending |-> FALSE, color |-> <<>>, type |-> "monochromatic", count |-> n,
   remaining |-> 0]

(***************************************************************************)
(* usePaletteGenerator.                                                    *)
(***************************************************************************)
\* `${baseColor}-${type}`
CacheKey(baseColor, type) == baseColor \o <<"-">> \o TypeChars[type]

\* generatePaletteAsync(baseColor, type): generatePalette is called with
\* two arguments, so swatchCount takes its default
generatePaletteAsync(baseColor, type) ==
  generatePalette(baseColor, type, DefaultSwatchCount)

\* { colors, textColors } as generatePaletteWithType builds it
PaletteResult(colors) ==
  [colors |-> colors,
   textColors |-> [i \in 1..Len(colors) |-> getContrastColor(colors[i])]]

\* window.location.hash after updateUrlHash(color, type)
UrlHash(color, type) ==
  <<"#">> \o Tail(standardizeHexColor(color)) \o <<"/">> \o TypeChars[type]

\* The caller's .then(colors => ...): copiedStates is reset, and every caller
\* but the mount effect's timer updates the URL
ThenOf(req, colors) ==
  /\ copiedStates' = [i \in 1..Len(colors) |-> FALSE]
  /\ hash' = IF req.origin = "url" THEN hash ELSE UrlHash(req.baseColor, req.type)

\* A generatePaletteWithType that never looks into the cache
generatePaletteWithTypeUncached(l, q, baseColor, type, count, origin) ==
  /\ lastCall' = [baseColor |-> baseColor, type |-> type, count |-> count,
                  origin |-> origin]
  /\ cachedResults' = cachedResults
  /\ loading' = TRUE
  /\ inFlight' = Append(q, [baseColor |-> baseColor, type |-> type,
                            count |-> count, origin |-> origin])
  /\ UNCHANGED <<palette, copiedStates, hash, answered>>

\* generatePaletteWithType(baseColor, type) called with loading = l and the
\* waiting calls q; the page passes swatchCount as a third argument, which
\* the function does not take.  A cached key is answered at once, caller's
\* .then included; otherwise loading is set and the call waits.
generatePaletteWithType(l, q, baseColor, type, count, origin) ==
  LET req == [baseColor |-> baseColor, type |-> type, count |-> count,
              origin |-> origin]
      cacheKey == CacheKey(baseColor, type)
  IN  /\ lastCall' = req
      /\ cachedResults' = cachedResults
      /\ IF cacheKey \in DOMAIN cachedResults
         THEN /\ palette' = cachedResults[cacheKey]
              /\ loading' = l
              /\ inFlight' = q
              /\ ThenOf(req, cachedResults[cacheKey].colors)
              /\ answered' = [req |-> req, fromCache |-> TRUE,
                              colors |-> cachedResults[cacheKey].colors]
         ELSE /\ loading' = TRUE
              /\ inFlight' = Append(q, req)
              /\ UNCHANGED <<palette, copiedStates, hash, answered>>

\* A cache that keeps only the entry just stored
CacheSetAlone(cache, cacheKey, result) == [k \in {cacheKey} |-> result]

\* cachedResults.set(cacheKey, result)
CacheSet(cache, cacheKey, result) ==
  [k \in DOMAIN cache \cup {cacheKey} |->
    IF k = cacheKey THEN result ELSE cache[k]]

\* The oldest waiting call resumes after its timeout: the palette is
\* computed, cached and displayed, loading is cleared, caller's .then runs
GenerationCompletes ==
  /\ inFlight # <<>>
  /\ LET req      == Head(inFlight)
         cacheKey == CacheKey(req.baseColor, req.type)
     IN  \E colors \in {generatePaletteAsync(req.baseColor, req.type)} :
         \E result \in {PaletteResult(colors)} :
           /\ cachedResults' = CacheSet(cachedResults, cacheKey, result)
           /\ palette' = result
           /\ loading' = FALSE
           /\ inFlight' = Tail(inFlight)
           /\ ThenOf(req, colors)
           /\ answered' = [req |-> req, fromCache |-> FALSE, colors |-> colors]
  /\ UNCHANGED <<lastCall, homeVars, engineVars,
                 shareVars>>

(***************************************************************************)
(* Home.                                                                   *)
(***************************************************************************)
\* str.split('/')
RECURSIVE Split(_, _)
Split(str, cur) ==
  IF Len(str) = 0 THEN <<cur>>
  ELSE IF str[1] = "/" THEN <<cur>> \o Split(Tail(str), <<>>)
  ELSE Split(Tail(str), Append(cur, str[1]))

isValidPaletteType(str) == \E t \in PaletteTypes : TypeChars[t] = str

TypeNamed(str) == CHOOSE t \in PaletteTypes : TypeChars[t] = str

\* A timer callback whose fallback is not the monochromatic scheme
UrlTypeOtherDefault(parts) ==
  IF Len(parts) >= 2 /\ isValidPaletteType(parts[2])
  THEN TypeNamed(parts[2])
  ELSE "analogous"

\* The scheme the effect's timer callback passes on
UrlType(parts) ==
  IF Len(parts) >= 2 /\ isValidPaletteType(parts[2])
  THEN TypeNamed(parts[2])
  ELSE "monochromatic"

\* handleRandomColor as rendered with paletteType = type, swatchCount = count
handleRandomColor(l, q, newColor, type, count) ==
  /\ inputColor' = newColor
  /\ isValidInput' = TRUE
  /\ generatePaletteWithType(l, q, newColor, type, count, "random")

\* The effect run once after the first render
Mount ==
  /\ ~mounted
  /\ mounted' = TRUE
  /\ LET parts    == Split(Tail(hash), <<>>)
         colorHex == parts[1]
         hasType  == Len(parts) >= 2 /\ isValidPaletteType(parts[2])
     IN  IF hash # <<>> /\ isValidHexColor(colorHex)
         THEN /\ inputColor' = standardizeHexColor(colorHex)
              /\ isValidInput' = TRUE
              /\ paletteType' = IF hasType THEN TypeNamed(parts[2]) ELSE paletteType
              /\ urlTimer' =
                   <<[color |-> standardizeHexColor(colorHex),
                      type |-> UrlType(parts),
                      count |-> swatchCount, remaining |-> UrlDelayTicks]>>
              /\ UNCHANGED hookVars
         ELSE /\ \E newColor \in RandomColors :
                   handleRandomColor(loading, inFlight, newColor, paletteType,
                                     swatchCount)
              /\ UNCHANGED <<paletteType, urlTimer>>
  /\ UNCHANGED <<swatchCount, debounced, staleTimers, toast, initialHash,
                 lastFired, steps, engineVars,
                 shareVars>>

\* The effect's setTimeout(..., 100) callback
UrlTimerFires ==
  /\ urlTimer # <<>>
  /\ urlTimer[1].remaining = 0
  /\ urlTimer' = <<>>
  /\ generatePaletteWithType(loading, inFlight, urlTimer[1].color,
                             urlTimer[1].type, urlTimer[1].count, "url")
  /\ UNCHANGED <<inputColor, isValidInput, paletteType, swatchCount, mounted,
                 debounced, staleTimers, toast, initialHash, lastFired, steps,
                 engineVars,
                 shareVars>>

\* A user action is possible once the page is mounted
UserStep ==
  /\ mounted
  /\ steps < MaxSteps
  /\ steps' = steps + 1

handleInputChange(value) ==
  /\ UserStep
  /\ inputColor' = value
  /\ isValidInput' = isValidHexColor(value)
  /\ UNCHANGED <<paletteType, swatchCount, mounted, urlTimer, debounced,
                 staleTimers, toast, initialHash, lastFired, hookVars,
                 engineVars,
                 shareVars>>

handleColorWheelChange(color) ==
  /\ UserStep
  /\ inputColor' = color
  /\ isValidInput' = TRUE
  /\ UNCHANGED <<paletteType, swatchCount, mounted, urlTimer, debounced,
                 staleTimers, toast, initialHash, lastFired, hookVars,
                 engineVars,
                 shareVars>>

\* ColorPicker: the wheel reports hsvaToHex(...); the popover's input
\* reports the standardized text, and only when the text is valid
ColorPickerWheel == \E color \in WheelColors : handleColorWheelChange(color)

\* A picker input that reports its text without validating it
ColorPickerInputUnchecked ==
  \E newHex \in TypedInputs : handleColorWheelChange(newHex)

ColorPickerInput ==
  \E newHex \in TypedInputs :
    /\ isValidHexColor(newHex)
    /\ handleColorWheelChange(standardizeHexColor(newHex))

\* The type menu is disabled while loading
handlePaletteTypeChange(type) ==
  /\ UserStep
  /\ ~loading
  /\ paletteType' = type
  /\ UNCHANGED <<inputColor, isValidInput, swatchCount, mounted, urlTimer,
                 debounced, staleTimers, toast, initialHash, lastFired,
                 hookVars, engineVars,
                 shareVars>>

\* debouncedGeneratePalette(color, type): the pending call of the current
\* debounced function is replaced and its 300 ms start again.  History: a
\* request still waiting in a replaced debounced function is superseded.
handleGeneratePalette ==
  /\ UserStep
  /\ IF isValidInput
     THEN /\ debounced' = [debounced EXCEPT !.pending = TRUE,
                                            !.color = inputColor,
                                            !.type = paletteType,
                                            !.remaining = DebounceTicks]
          /\ staleTimers' =
               [i \in DOMAIN staleTimers |->
                 IF staleTimers[i].remaining > 0
                 THEN [staleTimers[i] EXCEPT !.superseded = TRUE]
                 ELSE staleTimers[i]]
          /\ toast' = toast
     ELSE /\ toast' = "Please enter a valid hex color code"
          /\ UNCHANGED <<debounced, staleTimers>>
  /\ UNCHANGED <<inputColor, isValidInput, paletteType, swatchCount, mounted,
                 urlTimer, initialHash, lastFired, hookVars, engineVars,
                 shareVars>>

\* The trailing edge of the current debounced function
DebounceFires ==
  /\ debounced.pending
  /\ debounced.remaining = 0
  /\ debounced' = IdleDebounce(debounced.count)
  /\ lastFired' = [color |-> debounced.color, type |-> debounced.type,
                   count |-> debounced.count, superseded |-> FALSE]
  /\ generatePaletteWithType(loading, inFlight, debounced.color,
                             debounced.type, debounced.count, "generate")
  /\ UNCHANGED <<inputColor, isValidInput, paletteType, swatchCount, mounted,
                 urlTimer, staleTimers, toast, initialHash, steps, engineVars,
                 shareVars>>

\* The trailing edge of a debounced function that useMemo has replaced
StaleTimerFires ==
  \E i \in DOMAIN staleTimers :
    /\ staleTimers[i].remaining = 0
    /\ staleTimers' = SubSeq(staleTimers, 1, i - 1)
                        \o SubSeq(staleTimers, i + 1, Len(staleTimers))
    /\ lastFired' = [color |-> staleTimers[i].color,
                     type |-> staleTimers[i].type,
                     count |-> staleTimers[i].count,
                     superseded |-> staleTimers[i].superseded]
    /\ generatePaletteWithType(loading, inFlight, staleTimers[i].color,
                               staleTimers[i].type, staleTimers[i].count,
                               "generate")
    /\ UNCHANGED <<inputColor, isValidInput, paletteType, swatchCount, mounted,
                   urlTimer, debounced, toast, initialHash, steps, engineVars,
                 shareVars>>

\* The Random button, disabled while loading
RandomClick ==
  /\ UserStep
  /\ ~loading
  /\ \E newColor \in RandomColors :
       handleRandomColor(loading, inFlight, newColor, paletteType, swatchCount)
  /\ UNCHANGED <<paletteType, swatchCount, mounted, urlTimer, debounced,
                 staleTimers, toast, initialHash, lastFired, engineVars,
                 shareVars>>

\* swatchCount is a dependency of useMemo(() => debounce(...)): a change of
\* it makes a new debounced function; a call pending in the old one stays
SwatchCountBecomes(newCount) ==
  /\ swatchCount' = newCount
  /\ debounced' = IdleDebounce(newCount)
  /\ staleTimers' =
       IF debounced.pending
       THEN Append(staleTimers,
                   [color |-> debounced.color, type |-> debounced.type,
                    count |-> debounced.count,
                    remaining |-> debounced.remaining, superseded |-> FALSE])
       ELSE staleTimers

\* The add button is rendered while 0 < palette.length < 10
handleAddSwatch ==
  /\ UserStep
  /\ Len(palette.colors) > 0
  /\ Len(palette.colors) < 10
  /\ IF swatchCount >= MaxSwatches
     THEN /\ toast' = "Cannot add swatch. Maximum of 10 swatches allowed."
          /\ UNCHANGED <<swatchCount, debounced, staleTimers, hookVars>>
     ELSE /\ SwatchCountBecomes(swatchCount + 1)
          /\ toast' = toast
          /\ IF isValidInput
             THEN generatePaletteWithType(loading, inFlight, inputColor,
                                          paletteType, swatchCount + 1, "swatch")
             ELSE UNCHANGED hookVars
  /\ UNCHANGED <<inputColor, isValidInput, paletteType, mounted, urlTimer,
                 initialHash, lastFired, engineVars,
                 shareVars>>

\* A swatch's remove button is rendered while palette.length > 3
handleRemoveSwatch ==
  /\ UserStep
  /\ Len(palette.colors) > 3
  /\ IF swatchCount <= MinSwatches
     THEN /\ toast' = "Cannot remove swatch. Minimum of 3 swatches required."
          /\ UNCHANGED <<swatchCount, debounced, staleTimers, hookVars>>
     ELSE /\ SwatchCountBecomes(swatchCount - 1)
          /\ toast' = toast
          /\ IF isValidInput
             THEN generatePaletteWithType(loading, inFlight, inputColor,
                                          paletteType, swatchCount - 1, "swatch")
             ELSE UNCHANGED hookVars
  /\ UNCHANGED <<inputColor, isValidInput, paletteType, mounted, urlTimer,
                 initialHash, lastFired, engineVars,
                 shareVars>>

\* 100 ms pass: no timer is due, and no call waits in a zero timeout
PendingTimers ==
  {urlTimer[i].remaining : i \in DOMAIN urlTimer}
    \cup {staleTimers[i].remaining : i \in DOMAIN staleTimers}
    \cup (IF debounced.pending THEN {debounced.remaining} ELSE {})

Tick ==
  /\ inFlight = <<>>
  /\ PendingTimers # {}
  /\ 0 \notin PendingTimers
  /\ urlTimer' = [i \in DOMAIN urlTimer |->
                   [urlTimer[i] EXCEPT !.remaining = @ - 1]]
  /\ staleTimers' = [i \in DOMAIN staleTimers |->
                      [staleTimers[i] EXCEPT !.remaining = @ - 1]]
  /\ debounced' = IF debounced.pending
                  THEN [debounced EXCEPT !.remaining = @ - 1]
                  ELSE debounced
  /\ UNCHANGED <<inputColor, isValidInput, paletteType, swatchCount, mounted,
                 toast, initialHash, lastFired, steps, hookVars, engineVars,
                 shareVars>>

\* What each caller's catch reports
FailureToast(origin) ==
  CASE origin = "generate" ->
         "Failed to generate palette. Please check your input color."
    [] origin = "swatch" -> "Failed to update palette"
    [] OTHER -> "Failed to generate palette with random color."

\* A failure in a hook that clears loading on success only
GenerationFailsLoadingKept ==
  /\ inFlight # <<>>
  /\ steps < MaxSteps
  /\ steps' = steps + 1
  /\ LET req == Head(inFlight)
     IN  IF req.origin = "url"
         THEN /\ \E newColor \in RandomColors :
                   handleRandomColor(loading, Tail(inFlight), newColor,
                                     "monochromatic", InitialSwatchCount)
              /\ toast' = toast
         ELSE /\ loading' = loading
              /\ inFlight' = Tail(inFlight)
              /\ toast' = FailureToast(req.origin)
              /\ UNCHANGED <<inputColor, isValidInput, palette, cachedResults,
                             copiedStates, hash, lastCall, answered>>
  /\ UNCHANGED <<paletteType, swatchCount, mounted, urlTimer, debounced,
                 staleTimers, initialHash, lastFired, engineVars,
                 shareVars>>

\* A failure in a hook whose catch block empties the displayed palette
GenerationFailsPaletteCleared ==
  /\ inFlight # <<>>
  /\ steps < MaxSteps
  /\ steps' = steps + 1
  /\ LET req == Head(inFlight)
     IN  IF req.origin = "url"
         THEN /\ \E newColor \in RandomColors :
                   handleRandomColor(FALSE, Tail(inFlight), newColor,
                                     "monochromatic", InitialSwatchCount)
              /\ toast' = toast
         ELSE /\ loading' = FALSE
              /\ inFlight' = Tail(inFlight)
              /\ toast' = FailureToast(req.origin)
              /\ palette' = EmptyPalette
              /\ UNCHANGED <<inputColor, isValidInput, cachedResults,
                             copiedStates, hash, lastCall, answered>>
  /\ UNCHANGED <<paletteType, swatchCount, mounted, urlTimer, debounced,
                 staleTimers, initialHash, lastFired, engineVars,
                 shareVars>>

\* The oldest waiting call throws: catch re-throws, finally clears loading,
\* then the caller's catch runs.  The mount effect's catch calls the
\* handleRandomColor of the first render; the other callers report a toast.
\* A fault counts as a step of the environment.
GenerationFails ==
  /\ inFlight # <<>>
  /\ steps < MaxSteps
  /\ steps' = steps + 1
  /\ LET req == Head(inFlight)
     IN  IF req.origin = "url"
         THEN /\ \E newColor \in RandomColors :
                   handleRandomColor(FALSE, Tail(inFlight), newColor,
                                     "monochromatic", InitialSwatchCount)
              /\ toast' = toast
         ELSE /\ loading' = FALSE
              /\ inFlight' = Tail(inFlight)
              /\ toast' = FailureToast(req.origin)
              /\ UNCHANGED <<inputColor, isValidInput, palette, cachedResults,
                             copiedStates, hash, lastCall, answered>>
  /\ UNCHANGED <<paletteType, swatchCount, mounted, urlTimer, debounced,
                 staleTimers, initialHash, lastFired, engineVars,
                 shareVars>>

\* The URL handleShareClick builds from the state, from '#' on
ShareUrl(color, type) ==
  <<"#">> \o Substring(color, 1, Len(color)) \o <<"/">> \o TypeChars[type]

\* The share button, rendered while a palette is shown: the URL is written
\* to the clipboard, or writeText rejects and an error toast is shown
handleShareClick ==
  /\ UserStep
  /\ Len(palette.colors) > 0
  /\ \/ /\ clipboard' = ShareUrl(inputColor, paletteType)
        /\ UNCHANGED toast
     \/ /\ toast' = "Failed to copy share URL"
        /\ UNCHANGED clipboard
  /\ UNCHANGED <<inputColor, isValidInput, paletteType, swatchCount, mounted,
                 urlTimer, debounced, staleTimers, initialHash, lastFired,
                 hookVars, engineVars>>

(***************************************************************************)
(* The engine called directly.                                             *)
(***************************************************************************)
CallGeneratePalette ==
  /\ call # None
  /\ returned = None
  /\ returned' = PaletteSwatches(call.baseColor, call.type, call.swatchCount)
  /\ UNCHANGED <<call, history, homeVars, hookVars, shareVars>>

\* The arguments of the repeated calls
RepeatCalls ==
  [baseColor : {<<"#", "f", "f", "0", "0", "0", "0">>, <<"a", "b", "c">>},
   type : {"monochromatic", "triadic"},
   swatchCount : {3, 5}]

\* A generatePalette whose result array lives at module level and is never
\* emptied: each call returns the earlier results followed by its own
generatePaletteShared(log, baseColor, type, count) ==
  IF log = <<>>
  THEN generatePalette(baseColor, type, count)
  ELSE log[Len(log)].colors \o generatePalette(baseColor, type, count)

\* generatePalette called after the calls in log: the module keeps no state
\* between calls, each generator fills a fresh local result array
generatePaletteAfter(log, baseColor, type, count) ==
  generatePalette(baseColor, type, count)

CallAgain ==
  /\ Len(history) < MaxCalls
  /\ \E args \in RepeatCalls :
       \E colors \in {generatePaletteAfter(history, args.baseColor, args.type,
                                           args.swatchCount)} :
         /\ call' = args
         /\ returned' = colors
         /\ history' = Append(history, [call |-> args, colors |-> colors])
  /\ UNCHANGED <<homeVars, hookVars, shareVars>>

(***************************************************************************)
(* The colour functions called directly on the string call.text.  returned *)
(* holds the function applied last, its argument and its value; times      *)
(* counts the applications of standardizeHexColor.                         *)
(***************************************************************************)
Returned(fn, arg, value, times) ==
  [fn |-> fn, arg |-> arg, value |-> value, times |-> times]

ColorFrame == UNCHANGED <<call, history, homeVars, hookVars, shareVars>>

CallIsValidHexColor ==
  /\ returned = None
  /\ returned' = Returned("isValidHexColor", call.text,
                          isValidHexColor(call.text), 1)
  /\ ColorFrame

\* standardizeHexColor on the string, and once more on its own result
CallStandardizeHexColor ==
  /\ \/ /\ returned = None
        /\ returned' = Returned("standardizeHexColor", call.text,
                                standardizeHexColor(call.text), 1)
     \/ /\ returned # None
        /\ returned.fn = "standardizeHexColor"
        /\ returned.times = 1
        /\ returned' = Returned("standardizeHexColor", returned.value,
                                standardizeHexColor(returned.value), 2)
  /\ ColorFrame

CallGetContrastColor ==
  /\ returned = None
  /\ returned' = Returned("getContrastColor", call.text,
                          getContrastColor(call.text), 1)
  /\ ColorFrame

CallHexToHSL ==
  /\ returned = None
  /\ returned' = Returned("hexToHSL", call.text, hexToHSL(call.text), 1)
  /\ ColorFrame

\* hslToHex on the components hexToHSL returned
CallHslToHex ==
  /\ returned # None
  /\ returned.fn = "hexToHSL"
  /\ returned' = Returned("hslToHex", returned.value,
                          hslToHex(returned.value.h, returned.value.s,
                                   returned.value.l), 1)
  /\ ColorFrame

\* generatePalette on the string, with the scheme and count of the call
CallGeneratePaletteOnText ==
  /\ returned = None
  /\ returned' = Returned("generatePalette", call.text,
                          generatePalette(call.text, call.type,
                                          call.swatchCount), 1)
  /\ ColorFrame

\* formatColor on the colour, in the format of the call
CallFormatColor ==
  /\ returned = None
  /\ returned' = Returned("formatColor", call.text,
                          formatColor(call.text, call.format), 1)
  /\ ColorFrame

(***************************************************************************)
(* Specifications.                                                         *)
(***************************************************************************)
HomeInit ==
  /\ inputColor = <<"#", "3", "b", "8", "2", "f", "6">>
  /\ isValidInput = TRUE
  /\ paletteType = "monochromatic"
  /\ swatchCount = InitialSwatchCount
  /\ copiedStates = <<>>
  /\ mounted = FALSE
  /\ urlTimer = <<>>
  /\ debounced = IdleDebounce(InitialSwatchCount)
  /\ staleTimers = <<>>
  /\ toast = ""
  /\ palette = EmptyPalette
  /\ loading = FALSE
  /\ cachedResults = <<>>
  /\ inFlight = <<>>
  /\ lastCall = None
  /\ answered = None
  /\ lastFired = None
  /\ steps = 0
  /\ clipboard = None

Init ==
  /\ HomeInit
  /\ hash \in InitialHashes
  /\ initialHash = hash
  /\ call = None
  /\ returned = None
  /\ history = <<>>

Next ==
  \/ Mount
  \/ UrlTimerFires
  \/ \E value \in TypedInputs : handleInputChange(value)
  \/ ColorPickerWheel
  \/ ColorPickerInput
  \/ \E type \in MenuTypes : handlePaletteTypeChange(type)
  \/ handleGeneratePalette
  \/ DebounceFires
  \/ StaleTimerFires
  \/ RandomClick
  \/ handleAddSwatch
  \/ handleRemoveSwatch
  \/ GenerationCompletes
  \/ Tick

Spec == Init /\ [][Next]_vars

\* The same page when generatePalette may throw
FaultNext == Next \/ GenerationFails

SpecFault == Init /\ [][FaultNext]_vars

\* The same page with its share button
ShareNext == Next \/ handleShareClick

SpecShare == Init /\ [][ShareNext]_vars

\* generatePalette applied to arguments drawn from the bounded sets
EngineInit ==
  /\ HomeInit
  /\ hash = <<>>
  /\ initialHash = <<>>
  /\ call \in [baseColor : EngineColors, type : PaletteTypes,
               swatchCount : 1..MaxCount]
  /\ returned = None
  /\ history = <<>>

EngineNext == CallGeneratePalette

EngineSpec == EngineInit /\ [][EngineNext]_vars

\* The colour functions applied to strings drawn from ColorTexts
ColorInit ==
  /\ HomeInit
  /\ hash = <<>>
  /\ initialHash = <<>>
  /\ call \in [text : ColorTexts]
  /\ returned = None
  /\ history = <<>>

ColorNext ==
  \/ CallIsValidHexColor
  \/ CallStandardizeHexColor
  \/ CallGetContrastColor
  \/ CallHexToHSL
  \/ CallHslToHex

ColorSpec == ColorInit /\ [][ColorNext]_vars

\* hexToHSL and generatePalette applied to strings the validator rejects
MalformedInit ==
  /\ HomeInit
  /\ hash = <<>>
  /\ initialHash = <<>>
  /\ call \in [text : RejectedTexts, type : PaletteTypes,
               swatchCount : 1..MaxCount]
  /\ returned = None
  /\ history = <<>>

MalformedNext == CallHexToHSL \/ CallGeneratePaletteOnText

MalformedSpec == MalformedInit /\ [][MalformedNext]_vars

\* formatColor applied to colours drawn from FormatColors
FormatInit ==
  /\ HomeInit
  /\ hash = <<>>
  /\ initialHash = <<>>
  /\ call \in [text : FormatColors, format : ColorFormats]
  /\ returned = None
  /\ history = <<>>

FormatNext == CallFormatColor

FormatSpec == FormatInit /\ [][FormatNext]_vars

\* generatePalette called again and again in one session
RepeatInit ==
  /\ HomeInit
  /\ hash = <<>>
  /\ initialHash = <<>>
  /\ call = None
  /\ returned = None
  /\ history = <<>>

RepeatNext == CallAgain

RepeatSpec == RepeatInit /\ [][RepeatNext]_vars

(***************************************************************************)
(* Properties.                                                             *)
(***************************************************************************)
\* The smallest count of each scheme, as the specification states it
SchemeMinimum(type) == IF type \in {"complementary", "tetradic"} THEN 4 ELSE 3

\* The anchor index (from 0) the specification gives a scheme
AnchorIndex(type, count) ==
  CASE type = "monochromatic" -> (count - 1) \div 2
    [] type \in {"complementary", "split-complementary"} -> 1
    [] OTHER -> 0

\* The '/'-separated parts of the fragment the page was opened with
InitialParts == Split(Tail(initialHash), <<>>)

InitialColorValid == initialHash # <<>> /\ isValidHexColor(InitialParts[1])

\* The scheme a load is to use: the fragment's, or monochromatic
InitialType ==
  IF Len(InitialParts) >= 2
       /\ \E t \in PaletteTypes : TypeChars[t] = InitialParts[2]
  THEN CHOOSE t \in PaletteTypes : TypeChars[t] = InitialParts[2]
  ELSE "monochromatic"

C2_BaseIncluded ==
  (/\ returned # None
   /\ call.swatchCount >= SchemeMinimum(call.type)
   /\ call.swatchCount <= 10)
  => \E i \in DOMAIN returned :
       \/ returned[i].hex = standardizeHexColor(call.baseColor)
       \/ returned[i].off = RInt(0)

\* C3: for every count from the scheme's minimum to 10, the standardized
\* input colour is the string at the scheme's anchor index: the middle for
\* monochromatic, 1 for complementary and split-complementary, 0 for
\* triadic and tetradic.
C3_BaseAtAnchor ==
  (/\ returned # None
   /\ call.type # "analogous"
   /\ call.swatchCount >= SchemeMinimum(call.type)
   /\ call.swatchCount <= 10)
  => returned[AnchorIndex(call.type, call.swatchCount) + 1].hex
       = standardizeHexColor(call.baseColor)

\* C4: the colours a request (colour, scheme, count) is answered with,
\* from the cache or freshly generated, are those generatePalette gives for
\* that colour, scheme and count.
C4_AnsweredForTriple ==
  answered # None =>
    answered.colors = generatePalette(answered.req.baseColor,
                                      answered.req.type, answered.req.count)

\* C5: once the cache holds an entry for a key, every later state holds an
\* entry for that key with the same colours and text colours.
C5_CacheKept ==
  [][\A k \in DOMAIN cachedResults :
       k \in DOMAIN cachedResults' /\ cachedResults'[k] = cachedResults[k]]_vars

\* C5 witness: a generation waits for a key the cache already holds, that
\* is, two requests for the key were in flight together and one is done
C5_Witness ==
  /\ inFlight # <<>>
  /\ CacheKey(Head(inFlight).baseColor, Head(inFlight).type)
       \in DOMAIN cachedResults

\* C6: a generation that missed the cache leaves loading false when it
\* finishes, by success or by failure, and loading is false in every state
\* where no generation is in flight.
C6_LoadingCleared ==
  [][/\ inFlight = <<>> => ~loading
     /\ inFlight' = <<>> => ~loading'
     /\ (inFlight # <<>> /\ inFlight' = Tail(inFlight)) => ~loading']_vars

\* C6 witness: a generation started by add or remove has failed
C6_Witness ==
  /\ toast = "Failed to update palette"
  /\ inFlight = <<>>
  /\ ~loading

\* C7: of Generate requests that each come less than 300 ms after the one
\* before, only the last triggers a generation: no request fires that a
\* later Generate followed while it was still waiting.
C7_OnlyLastFires == lastFired # None => ~lastFired.superseded

\* C8: generatePaletteWithType is never called with a colour that
\* isValidHexColor rejects, and Generate on an invalid input only reports
\* the error: palette, cache, URL fragment and pending work stay as they are.
C8_ValidColoursOnly ==
  [][/\ lastCall' # None => isValidHexColor(lastCall'.baseColor)
     /\ (handleGeneratePalette /\ ~isValidHexColor(inputColor)) =>
          /\ toast' = "Please enter a valid hex color code"
          /\ UNCHANGED <<palette, cachedResults, hash, lastCall, inFlight,
                         debounced, staleTimers>>]_vars

\* C8 witness: Generate was pressed on an invalid input while a palette
\* was on display
C8_Witness ==
  /\ toast = "Please enter a valid hex color code"
  /\ ~isValidHexColor(inputColor)
  /\ palette # EmptyPalette

\* C9: the page's swatch count stays between the minimum of the current
\* scheme and 10.
C9_CountInRange ==
  /\ swatchCount >= SchemeMinimum(paletteType)
  /\ swatchCount <= MaxSwatches

\* C10: on load, without a fragment or with a first part that is no valid
\* colour, a random colour is generated and used; with a valid colour the
\* palette is generated for the standardized colour, with the fragment's
\* scheme if it names one of the six and with monochromatic otherwise.
C10_LoadFallbacks ==
  [][/\ (Mount /\ ~InitialColorValid) =>
          /\ lastCall' # None
          /\ lastCall'.origin = "random"
          /\ lastCall'.baseColor \in RandomColors
          /\ lastCall'.type = "monochromatic"
          /\ inputColor' = lastCall'.baseColor
     /\ UrlTimerFires =>
          lastCall' = [baseColor |-> standardizeHexColor(InitialParts[1]),
                       type |-> InitialType, count |-> InitialSwatchCount,
                       origin |-> "url"]
     /\ (answered' # answered /\ answered'.req.origin = "url") =>
          answered'.colors =
            generatePalette(standardizeHexColor(InitialParts[1]), InitialType,
                            InitialSwatchCount)]_vars

\* C10 witness: the page was opened with a valid colour and a scheme part
\* that names no scheme, and the palette of the load is on display
C10_Witness ==
  /\ answered # None
  /\ answered.req.origin = "url"
  /\ answered.req.type = "monochromatic"
  /\ Len(InitialParts) >= 2
  /\ palette.colors = answered.colors

\* A URL fragment as the page reads it back: '#', six hex digits, '/', and
\* the name of a scheme
IsShareFragment(str) ==
  /\ Len(str) > 8
  /\ str[1] = "#"
  /\ \A i \in 2..7 : IsHexDigit(str[i])
  /\ str[8] = "/"
  /\ isValidPaletteType(Substring(str, 8, Len(str)))

\* C11: every fragment updateUrlHash writes to window.location.hash, and
\* every fragment handleShareClick copies while the input colour is one
\* isValidHexColor accepts, is six hex digits, '/', and a scheme name.
C11_FragmentsWellFormed ==
  [][/\ hash' # hash => IsShareFragment(hash')
     /\ clipboard' # clipboard /\ isValidHexColor(inputColor)
          => IsShareFragment(clipboard')]_vars

Unhashed(str) == IF Len(str) > 0 /\ str[1] = "#" THEN Tail(str) ELSE str

\* Exactly n hex digits, of either case
IsHexDigits(str, n) == Len(str) = n /\ \A i \in 1..n : IsHexDigit(str[i])

\* A six-digit colour, with or without '#'
IsSixDigitColor(str) == IsHexDigits(Unhashed(str), 6)

\* The value of channel k (1 red, 2 green, 3 blue) of a six-digit colour
ByteAt(str, k) == HexPrefix(SubSeq(Unhashed(str), 2 * k - 1, 2 * k), 0)

\* C13: for every six-digit colour H, each channel of hslToHex(hexToHSL(H))
\* differs from the same channel of H by at most 1.
C13_RoundTripWithinOne ==
  returned # None /\ returned.fn = "hslToHex" /\ IsSixDigitColor(call.text)
    => /\ IsSixDigitColor(returned.value)
       /\ \A k \in 1..3 :
            Abs(ByteAt(returned.value, k) - ByteAt(call.text, k)) <= 1

\* The round trip of a colour whose hue lies beyond 240 degrees
C13_Witness ==
  /\ returned # None
  /\ returned.fn = "hslToHex"
  /\ call.text = <<"#", "d", "e", "0", "6", "c", "e">>
  /\ returned.value = call.text

\* 0 <= x < 360
InHueRange(x) == ~IsNaN(x) /\ ~RLess(x, RInt(0)) /\ RLess(x, RInt(360))

\* 0 <= x <= 1
InUnitRange(x) == ~IsNaN(x) /\ ~RLess(x, RInt(0)) /\ ~RLess(RInt(1), x)

\* C14: for every valid base colour, every scheme and every count from 1 to
\* 10, the hue hexToHSL returns and every hue passed to hslToHex lie in
\* [0, 360), and every saturation and lightness passed to hslToHex lie in
\* [0, 1].
C14_ComponentsInRange ==
  returned # None /\ call.swatchCount <= 10
    => /\ InHueRange(hexToHSL(standardizeHexColor(call.baseColor)).h)
       /\ \A i \in 1..Len(returned) :
            ~returned[i].lit
              => /\ InHueRange(returned[i].h)
                 /\ InUnitRange(returned[i].s)
                 /\ InUnitRange(returned[i].l)

\* A swatch whose hue went past 360 degrees and was wrapped: its hue is
\* below its own positive offset
C14_Witness ==
  /\ returned # None
  /\ call.swatchCount <= 10
  /\ \E i \in 1..Len(returned) :
       /\ ~returned[i].lit
       /\ RLess(RInt(0), returned[i].off)
       /\ RLess(returned[i].h, returned[i].off)

\* '#' followed by six digits out of 0-9 and a-f
IsLowercaseColor(str) ==
  /\ Len(str) = 7
  /\ str[1] = "#"
  /\ \A k \in 2..7 : \E v \in 1..16 : HexLower[v] = str[k]

\* C15: every colour string of a palette generated for a valid input colour
\* is '#' followed by six lowercase hex digits, whatever the case of the
\* input.
C15_LowercaseColours ==
  returned # None /\ isValidHexColor(call.baseColor)
    => \A i \in 1..Len(returned) : IsLowercaseColor(returned[i].hex)

\* The hex digits of either case
HexDigitChars ==
  {"0", "1", "2", "3", "4", "5", "6", "7", "8", "9",
   "a", "b", "c", "d", "e", "f", "A", "B", "C", "D", "E", "F"}

\* An optional leading '#' followed by exactly three or exactly six hex digits
IsColorText(str) ==
  \E n \in {3, 6} : \E k \in {0, 1} :
    /\ Len(str) = n + k
    /\ k = 1 => str[1] = "#"
    /\ \A i \in (k + 1)..(k + n) : str[i] \in HexDigitChars

\* C16: isValidHexColor(s) is true exactly when s, after removing at most
\* one leading '#', is exactly three or exactly six hex digits of either
\* case, and false for every other string (other lengths, a second '#',
\* other characters, surrounding blanks).
C16_ValidExactly ==
  returned # None /\ returned.fn = "isValidHexColor"
    => returned.value = IsColorText(call.text)

\* A three-digit colour behind two '#' is rejected
C16_Witness ==
  /\ returned # None
  /\ returned.fn = "isValidHexColor"
  /\ call.text = <<"#", "#", "a", "b", "c">>
  /\ returned.value = FALSE

\* C17: for every string isValidHexColor accepts, standardizeHexColor
\* returns '#' followed by six hex digits, each digit of a three-digit form
\* doubled in place; applied to its own result it returns that result.
C17_StandardForm ==
  returned # None /\ returned.fn = "standardizeHexColor"
                  /\ isValidHexColor(call.text)
    => /\ Len(returned.value) = 7
       /\ returned.value[1] = "#"
       /\ \A i \in 2..7 : returned.value[i] \in HexDigitChars
       /\ Len(Unhashed(call.text)) = 3
            => \A i \in 1..3 :
                 /\ returned.value[2 * i] = Unhashed(call.text)[i]
                 /\ returned.value[2 * i + 1] = Unhashed(call.text)[i]
       /\ Len(Unhashed(call.text)) = 6
            => Tail(returned.value) = Unhashed(call.text)
       /\ returned.times = 2 => returned.value = returned.arg

\* The second application to a three-digit colour given without '#'
C17_Witness ==
  /\ returned # None
  /\ returned.fn = "standardizeHexColor"
  /\ returned.times = 2
  /\ call.text = <<"a", "F", "0">>
  /\ returned.value = <<"#", "a", "a", "F", "F", "0", "0">>

\* C18: for a six-digit colour with channels R, G, B, getContrastColor
\* returns '#000000' when 299 R + 587 G + 114 B >= 128000 and '#ffffff'
\* otherwise: black text on white, white text on black.
C18_ContrastThreshold ==
  returned # None /\ returned.fn = "getContrastColor"
                  /\ IsSixDigitColor(call.text)
    => /\ returned.value =
            IF 299 * ByteAt(call.text, 1) + 587 * ByteAt(call.text, 2)
                 + 114 * ByteAt(call.text, 3) >= 128000
            THEN <<"#", "0", "0", "0", "0", "0", "0">>
            ELSE <<"#", "f", "f", "f", "f", "f", "f">>
       /\ call.text = <<"#", "f", "f", "f", "f", "f", "f">>
            => returned.value = <<"#", "0", "0", "0", "0", "0", "0">>
       /\ call.text = <<"#", "0", "0", "0", "0", "0", "0">>
            => returned.value = <<"#", "f", "f", "f", "f", "f", "f">>

\* A colour exactly on the threshold: 299 * 1 + 587 * 189 + 114 * 147
C18_Witness ==
  /\ returned # None
  /\ returned.fn = "getContrastColor"
  /\ call.text = <<"#", "0", "1", "b", "d", "9", "3">>
  /\ returned.value = <<"#", "0", "0", "0", "0", "0", "0">>

\* The string without its first '#'
WithoutFirstHash(str) ==
  IF \E i \in 1..Len(str) : str[i] = "#"
  THEN LET k == CHOOSE i \in 1..Len(str) :
                  str[i] = "#" /\ \A j \in 1..(i - 1) : str[j] # "#"
       IN  [i \in 1..(Len(str) - 1) |-> IF i < k THEN str[i] ELSE str[i + 1]]
  ELSE str

\* Channel slice k (characters 2k-1 and 2k) of the string begins with a hex
\* digit, a leading blank aside
SliceParses(str, k) ==
  /\ Len(WithoutFirstHash(str)) >= 2 * k - 1
  /\ \/ WithoutFirstHash(str)[2 * k - 1] \in HexDigitChars
     \/ /\ WithoutFirstHash(str)[2 * k - 1] = " "
        /\ Len(WithoutFirstHash(str)) >= 2 * k
        /\ WithoutFirstHash(str)[2 * k] \in HexDigitChars

HasNaN(hsl) == IsNaN(hsl.h) \/ IsNaN(hsl.s) \/ IsNaN(hsl.l)

\* The length every scheme gives its palette
UsualLength(type, count) == MaxInt(count, SchemeMinimum(type))

RLeq(a, b) == ~IsNaN(a) /\ ~IsNaN(b) /\ ~RLess(b, a)

\* C20: in a monochromatic palette for a valid base colour and a count from
\* 3 to 10, lightness never increases from index 0 to the last index: every
\* swatch before the base is at least as light as the base, every swatch
\* after it at most as light, and all swatches have the base's hue and
\* saturation.
C20_MonochromaticOrdered ==
  returned # None /\ call.type = "monochromatic"
                  /\ call.swatchCount \in 3..10
                  /\ isValidHexColor(call.baseColor)
    => /\ \A i \in 1..(Len(returned) - 1) :
            RLeq(returned[i + 1].l, returned[i].l)
       /\ \E m \in 1..Len(returned) :
            /\ returned[m].lit
            /\ \A i \in 1..Len(returned) :
                 /\ i < m => RLeq(returned[m].l, returned[i].l)
                 /\ i > m => RLeq(returned[i].l, returned[m].l)
                 /\ returned[i].h = returned[m].h
                 /\ returned[i].s = returned[m].s

\* hexToHSL of the standardized base colour of the call
BaseHsl == hexToHSL(standardizeHexColor(call.baseColor))

\* (h + deg) mod 360 for the base hue h
BaseHuePlus(deg) ==
  IF RLess(RAdd(BaseHsl.h, RInt(deg)), RInt(360))
  THEN RAdd(BaseHsl.h, RInt(deg))
  ELSE RSub(RAdd(BaseHsl.h, RInt(deg)), RInt(360))

\* The swatch is at least as light and at most as saturated as the base
IsLightenedVariant(sw) ==
  RLeq(BaseHsl.l, sw.l) /\ RLeq(sw.s, BaseHsl.s)

\* The swatch has the base's saturation and lightness
IsPureAnchor(sw) == sw.s = BaseHsl.s /\ sw.l = BaseHsl.l

\* C21: a complementary palette of count n, n from 4 to 10, is ceil(n/2)
\* swatches at the base hue followed by floor(n/2) swatches at hue
\* (h + 180) mod 360; in each half the first swatch is the lightened,
\* desaturated variant and the second the pure anchor colour with the
\* base's saturation and lightness.
C21_ComplementaryHalves ==
  returned # None /\ call.type = "complementary"
                  /\ call.swatchCount \in 4..10
                  /\ isValidHexColor(call.baseColor)
    => LET n    == call.swatchCount
           main == (n + 1) \div 2
       IN  /\ Len(returned) = n
           /\ \A i \in 1..main : returned[i].h = BaseHsl.h
           /\ \A i \in (main + 1)..n : returned[i].h = BaseHuePlus(180)
           /\ IsLightenedVariant(returned[1])
           /\ IsPureAnchor(returned[2])
           /\ IsLightenedVariant(returned[main + 1])
           /\ IsPureAnchor(returned[main + 2])

\* Swatches from..to of the palette returned form an arm at hue
\* (h + deg) mod 360 that starts with its pure anchor colour
IsArm(from, to, deg) ==
  /\ from <= to
  /\ to <= Len(returned)
  /\ \A i \in from..to : returned[i].h = BaseHuePlus(deg)
  /\ IsPureAnchor(returned[from])

\* C22: in a triadic palette of count n, n from 3 to 10, the base arm has
\* ceil(n/3) swatches and the other n - ceil(n/3) are split evenly between
\* the +120 degree arm and the +240 degree arm that follows it, the +120
\* degree arm getting the extra swatch of an odd remainder; each arm starts
\* with its pure anchor colour.
C22_TriadicArms ==
  returned # None /\ call.type = "triadic"
                  /\ call.swatchCount \in 3..10
                  /\ isValidHexColor(call.baseColor)
    => LET n     == call.swatchCount
           base  == (n + 2) \div 3
           first == (n - base + 1) \div 2
       IN  /\ Len(returned) = n
           /\ IsArm(1, base, 0)
           /\ IsArm(base + 1, base + first, 120)
           /\ IsArm(base + first + 1, n, 240)

\* Swatches from..to of the palette returned all are the string of the
\* pure anchor colour at hue (h + deg) mod 360
IsRepeatedAnchor(from, to, deg) ==
  /\ from <= to
  /\ to <= Len(returned)
  /\ \A i \in from..to :
       /\ returned[i].h = BaseHuePlus(deg)
       /\ IsPureAnchor(returned[i])
       /\ returned[i].hex = hslToHex(BaseHuePlus(deg), BaseHsl.s, BaseHsl.l)

\* C23: in a tetradic palette of count n, n from 4 to 10, the arms at hue
\* offsets 0, 90, 180 and 270 degrees appear in that order with sizes
\* ceil(n/4), ceil(r1/3), ceil(r2/2) and the rest, r1 and r2 being what
\* remains after the earlier arms; every swatch of the 90, 180 and 270
\* degree arms is the string of that arm's pure anchor colour.
C23_TetradicArms ==
  returned # None /\ call.type = "tetradic"
                  /\ call.swatchCount \in 4..10
                  /\ isValidHexColor(call.baseColor)
    => LET n  == call.swatchCount
           a0 == (n + 3) \div 4
           a1 == (n - a0 + 2) \div 3
           a2 == (n - a0 - a1 + 1) \div 2
       IN  /\ Len(returned) = n
           /\ \A i \in 1..a0 : returned[i].h = BaseHsl.h
           /\ IsRepeatedAnchor(a0 + 1, a0 + a1, 90)
           /\ IsRepeatedAnchor(a0 + a1 + 1, a0 + a1 + a2, 180)
           /\ IsRepeatedAnchor(a0 + a1 + a2 + 1, n, 270)

\* A tetradic palette of ten: arms of 3, 3, 2 and 2 swatches
C23_Witness ==
  /\ returned # None
  /\ call.type = "tetradic"
  /\ call.swatchCount = 10
  /\ call.baseColor = <<"#", "3", "3", "6", "6", "9", "9">>
  /\ returned[4].hex = returned[6].hex
  /\ returned[7].hex = returned[8].hex
  /\ returned[9].hex = returned[10].hex
  /\ returned[6].hex # returned[7].hex

\* C24: when the computation inside generatePaletteWithType fails, the
\* error reaches the caller (its catch reports a toast, the mount effect's
\* catch calls handleRandomColor), the cache is left as it was, the
\* displayed palette and text colours keep their values and loading ends
\* false; only the request made by the mount effect's catch may then
\* display its cached palette (a hit, nothing new in flight) or set loading
\* again (a miss, one generation more in flight).
C24_FailureLeavesState ==
  [][GenerationFails =>
       /\ IF Head(inFlight).origin = "url"
          THEN lastCall' # None /\ lastCall'.origin = "random"
          ELSE toast' = FailureToast(Head(inFlight).origin)
                 /\ lastCall' = lastCall
       /\ cachedResults' = cachedResults
       /\ palette' # palette
            => /\ Head(inFlight).origin = "url"
               /\ Len(inFlight') < Len(inFlight)
       /\ loading'
            => /\ Head(inFlight).origin = "url"
               /\ Len(inFlight') = Len(inFlight)]_vars

\* A generation for a colour not yet cached has failed while the earlier
\* palette stays on display
C24_Witness ==
  /\ toast = "Failed to update palette"
  /\ Len(palette.colors) > 0
  /\ ~loading
  /\ lastCall # None
  /\ CacheKey(lastCall.baseColor, lastCall.type) \notin DOMAIN cachedResults

\* C25: once every started generation has completed, the displayed palette
\* is the one of the most recently issued request: an earlier request still
\* in flight never overwrites the result of a later one, also when the later
\* one was answered at once from the cache.
C25_LatestRequestShown ==
  inFlight = <<>> /\ lastCall # None
    => /\ answered # None
       /\ answered.req = lastCall
       /\ palette.colors = answered.colors

\* C26: in every state where a generation that missed the cache has started
\* and not yet finished, loading is true, also when several overlap.
C26_LoadingWhileInFlight == inFlight # <<>> => loading

\* C27: whenever a generation requested by add-swatch or remove-swatch is
\* answered while its count is still the page's swatch count (no other
\* action in between), the displayed palette has as many colours as the
\* swatch count.
C27_PaletteMatchesSwatchCount ==
  [][(/\ answered' # answered
      /\ answered'.req.origin = "swatch"
      /\ answered'.req.count = swatchCount')
       => Len(palette'.colors) = swatchCount']_vars

\* The key of the request made last, after and before the step
LastKey == CacheKey(lastCall.baseColor, lastCall.type)

NextLastKey == CacheKey(lastCall'.baseColor, lastCall'.type)

\* C28: a request to generatePaletteWithType whose key is in the cache
\* displays the cached entry and returns its colours, and changes neither
\* loading nor the cache nor the generations in flight.
C28_CacheHitFrame ==
  [][(/\ lastCall' # None
      /\ lastCall' # lastCall \/ (answered' # answered /\ answered'.fromCache)
      /\ NextLastKey \in DOMAIN cachedResults)
       => /\ palette' = cachedResults[NextLastKey]
          /\ answered' = [req |-> lastCall', fromCache |-> TRUE,
                          colors |-> cachedResults[NextLastKey].colors]
          /\ loading' = loading
          /\ cachedResults' = cachedResults
          /\ inFlight' = inFlight]_vars

\* A Random request was answered from the cache while another generation
\* was waiting
C28_Witness ==
  /\ answered # None
  /\ answered.fromCache
  /\ answered.req.origin = "random"
  /\ answered.req = lastCall
  /\ inFlight # <<>>
  /\ palette = cachedResults[LastKey]

\* The hue offsets of a scheme's anchors, in degrees
AnchorOffsets(type) ==
  CASE type = "complementary" -> {0, 180}
    [] type = "triadic" -> {0, 120, 240}
    [] type = "split-complementary" -> {0, 150, 210}
    [] type = "tetradic" -> {0, 90, 180, 270}
    [] OTHER -> {}

\* Number of swatches of the palette returned at hue (h + deg) mod 360
ArmSize(deg) ==
  Cardinality({i \in 1..Len(returned) : returned[i].h = BaseHuePlus(deg)})

\* C29: for every scheme with anchors and every count from the scheme's
\* minimum to 10, each anchor hue receives at least one swatch and the
\* numbers of swatches of any two anchors differ by at most one.
C29_AnchorsBalanced ==
  returned # None /\ isValidHexColor(call.baseColor)
                  /\ call.swatchCount \in SchemeMinimum(call.type)..10
    => /\ \A d \in AnchorOffsets(call.type) : ArmSize(d) >= 1
       /\ \A d, e \in AnchorOffsets(call.type) :
            ArmSize(d) - ArmSize(e) <= 1

\* A tetradic palette of seven: three arms of two swatches and one of one
C29_Witness ==
  /\ returned # None
  /\ call.type = "tetradic"
  /\ call.swatchCount = 7
  /\ ArmSize(0) = 2
  /\ ArmSize(270) = 1

\* The numbers written in a text: the value of each maximal run of decimal
\* digits, in order (run is the value of the run being read, or -1)
RECURSIVE NumbersIn(_, _)
NumbersIn(str, run) ==
  IF Len(str) = 0 THEN (IF run >= 0 THEN <<run>> ELSE <<>>)
  ELSE IF \E d \in 1..10 : DecDigits[d] = str[1]
       THEN NumbersIn(Tail(str),
              10 * (IF run >= 0 THEN run ELSE 0)
                + (CHOOSE d \in 0..9 : DecDigits[d + 1] = str[1]))
       ELSE (IF run >= 0 THEN <<run>> ELSE <<>>) \o NumbersIn(Tail(str), -1)

\* C30: for every six-digit colour the text of the hsl and oklch formats
\* carries an integer hue between 0 and 359 degrees, and the hsl text
\* integer saturation and lightness percentages between 0 and 100.
C30_FormattedRanges ==
  returned # None /\ returned.fn = "formatColor"
                  /\ IsSixDigitColor(call.text)
    => /\ call.format = "hsl"
            => /\ Len(NumbersIn(returned.value, -1)) = 3
               /\ NumbersIn(returned.value, -1)[1] \in 0..359
               /\ NumbersIn(returned.value, -1)[2] \in 0..100
               /\ NumbersIn(returned.value, -1)[3] \in 0..100
       /\ call.format = "oklch"
            => /\ Len(NumbersIn(returned.value, -1)) = 4
               /\ NumbersIn(returned.value, -1)[4] \in 0..359

=============================================================================
